---- MODULE Spec2Model ----
(***************************************************************************)
(* Model of snoringlion/agent-sandbox: the AnthropicChatModel adapter      *)
(* (src/src/llm.py) and the get_joke call site (src/src/main.py).          *)
(*                                                                         *)
(* One thread of control.  A caller either invokes a constructed adapter   *)
(* directly with a conversation, or calls get_joke with or without an      *)
(* adapter.  _generate is split at its four observable points: the         *)
(* credential read (line 37), the request construction (lines 41-58), the  *)
(* provider call (line 60) and the extraction of the reply (lines 61-63).  *)
(* Optional values (Python None) are sequences of length 0 or 1.           *)
(***************************************************************************)
EXTENDS Integers, Sequences, FiniteSets, TLC

VARIABLES
    environ,     \* os.environ["ANTHROPIC_API_KEY"]: None or Some(key)
    held,        \* TRUE when the caller holds a constructed AnthropicChatModel
    missed,      \* TRUE once a _generate on the held adapter raised KeyError
    pc,          \* position of the single thread of control
    mode,        \* "none" | "direct" | "joke": who called the adapter
    arg,         \* get_joke's llm argument: "none" | "double" | "held"
    llm,         \* get_joke's local llm: "none" | "double" | "held" | "fresh"
    constructed, \* get_joke executed llm = AnthropicChatModel()
    invokes,     \* number of llm.invoke calls made by the current get_joke
    self,        \* adapter running _generate: "none" | "held" | "fresh"
    messages,    \* the conversation handed to invoke / _generate
    client,      \* api_key of the client built at line 37: None or Some(key)
    request,     \* request_params: None or Some(record)
    calls,       \* number of client.messages.create calls of this _generate
    sent,        \* the parameters client.messages.create received
    response,    \* None or Some(sequence of content blocks)
    reply,       \* message returned by invoke: None or Some(message)
    raised,      \* exception leaving invoke: None or Some(name)
    result,      \* value returned by get_joke: None or Some(text)
    jokeRaised   \* exception leaving get_joke: None or Some(name)

vars == <<environ, held, missed, pc, mode, arg, llm, constructed, invokes, self,
          messages, client, request, calls, sent, response, reply, raised,
          result, jokeRaised>>

\* ------------------------------------------------------------------ bounds
MaxLen == 3
MaxBlocks == 2

Keys == {"k1", "k2"}
Texts == {"", "a", "b"}
BlockTexts == {"x", "y"}
ProviderErrors == {"APIConnectionError", "RateLimitError"}

\* ------------------------------------------------------------ option type
None == <<>>
Some(x) == <<x>>
Get(o) == o[1]

\* --------------------------------------------------------------- messages
SystemMessage(c) == [type |-> "system", content |-> c]
HumanMessage(c) == [type |-> "human", content |-> c]
AIMessage(c) == [type |-> "ai", content |-> c]

\* A message of any other type (tool, function, chat) is represented by one
\* value: its content is never read.
Messages == [type : {"system", "human", "ai"}, content : Texts]
                \cup {[type |-> "other", content |-> "a"]}

SeqUpTo(S, n) == UNION {[1..k -> S] : k \in 0..n}

Conversations == SeqUpTo(Messages, MaxLen)

ContentBlock(t) == [text |-> t]

Responses == SeqUpTo({ContentBlock(t) : t \in BlockTexts}, MaxBlocks)

\* ---------------------------------------------------------------- adapter
model_name == "claude-opus-4-6"
max_tokens == 1024

\* The loop of lines 44-50, started with system_prompt = None and
\* conversation = [] (lines 41-42).  A message that is none of the three
\* types falls through the elif chain.
\* Faulty variant: the first system message wins instead of the last.
RECURSIVE PartitionFirstWins(_, _, _)
PartitionFirstWins(msgs, system_prompt, conversation) ==
    IF msgs = <<>>
    THEN [system_prompt |-> system_prompt, conversation |-> conversation]
    ELSE LET message == Head(msgs) IN
         IF message.type = "system"
         THEN PartitionFirstWins(Tail(msgs),
                  IF system_prompt = None THEN Some(message.content)
                                          ELSE system_prompt,
                  conversation)
         ELSE IF message.type = "human"
         THEN PartitionFirstWins(Tail(msgs), system_prompt,
                  Append(conversation,
                         [role |-> "user", content |-> message.content]))
         ELSE IF message.type = "ai"
         THEN PartitionFirstWins(Tail(msgs), system_prompt,
                  Append(conversation,
                         [role |-> "assistant", content |-> message.content]))
         ELSE PartitionFirstWins(Tail(msgs), system_prompt, conversation)

\* Faulty variant: turns are inserted at the front, reversing their order.
RECURSIVE PartitionPrepend(_, _, _)
PartitionPrepend(msgs, system_prompt, conversation) ==
    IF msgs = <<>>
    THEN [system_prompt |-> system_prompt, conversation |-> conversation]
    ELSE LET message == Head(msgs) IN
         IF message.type = "system"
         THEN PartitionPrepend(Tail(msgs), Some(message.content), conversation)
         ELSE IF message.type = "human"
         THEN PartitionPrepend(Tail(msgs), system_prompt,
                  <<[role |-> "user", content |-> message.content]>>
                      \o conversation)
         ELSE IF message.type = "ai"
         THEN PartitionPrepend(Tail(msgs), system_prompt,
                  <<[role |-> "assistant", content |-> message.content]>>
                      \o conversation)
         ELSE PartitionPrepend(Tail(msgs), system_prompt, conversation)

\* The loop as written.
RECURSIVE Partition(_, _, _)
Partition(msgs, system_prompt, conversation) ==
    IF msgs = <<>>
    THEN [system_prompt |-> system_prompt, conversation |-> conversation]
    ELSE LET message == Head(msgs) IN
         IF message.type = "system"
         THEN Partition(Tail(msgs), Some(message.content), conversation)
         ELSE IF message.type = "human"
         THEN Partition(Tail(msgs), system_prompt,
                  Append(conversation,
                         [role |-> "user", content |-> message.content]))
         ELSE IF message.type = "ai"
         THEN Partition(Tail(msgs), system_prompt,
                  Append(conversation,
                         [role |-> "assistant", content |-> message.content]))
         ELSE Partition(Tail(msgs), system_prompt, conversation)

\* Python truthiness of system_prompt (line 57): None and "" are falsy.
\* (faulty variant: `is not None`, which lets "" through)
TruthyNotNone(system_prompt) == system_prompt # None

Truthy(system_prompt) == system_prompt # None /\ Get(system_prompt) # ""

\* Lines 52-58: the three fixed keys, and "system" only when truthy.
\* (faulty variants: the key always set, the key never set)
RequestParamsAlwaysSystem(system_prompt, conversation) ==
    [model |-> model_name, max_tokens |-> max_tokens,
     messages |-> conversation,
     system |-> IF system_prompt = None THEN "" ELSE Get(system_prompt)]

RequestParamsNeverSystem(system_prompt, conversation) ==
    [model |-> model_name, max_tokens |-> max_tokens,
     messages |-> conversation]

RequestParams(system_prompt, conversation) ==
    LET request_params == [model |-> model_name, max_tokens |-> max_tokens,
                           messages |-> conversation]
    IN  IF Truthy(system_prompt)
        THEN [system |-> Get(system_prompt)] @@ request_params
        ELSE request_params

\* Lines 41-58 as a whole.
BuildRequest(msgs) ==
    LET p == Partition(msgs, None, <<>>)
    IN  RequestParams(p.system_prompt, p.conversation)

\* Line 61: response.content[0].text
\* (faulty variant: the last block instead of the first)
LastText(content) == content[Len(content)].text

FirstText(content) == content[1].text

\* ------------------------------------------------------------- call site
Persona == "You are a witty comedian who specialises in short, clever jokes."
Ask == "Tell me one short, funny joke."
Atoms == "Why don't scientists trust atoms? Because they make up everything!"

\* main.py lines 19-22
JokeMessages == <<SystemMessage(Persona), HumanMessage(Ask)>>

\* return values a test double's invoke is configured with (test_main.py:14)
DoubleTexts == {Atoms, "x"}

\* ------------------------------------------------------------------- Init
Env == {None} \cup {Some(k) : k \in Keys}

Init ==
    /\ environ \in Env
    /\ held = FALSE
    /\ missed = FALSE
    /\ pc = "idle"
    /\ mode = "none"
    /\ arg = "none"
    /\ llm = "none"
    /\ constructed = FALSE
    /\ invokes = 0
    /\ self = "none"
    /\ messages = <<>>
    /\ client = None
    /\ request = None
    /\ calls = 0
    /\ sent = None
    /\ response = None
    /\ reply = None
    /\ raised = None
    /\ result = None
    /\ jokeRaised = None

frame == <<mode, arg, llm, constructed, invokes, self, messages, client, request,
           calls, sent, response, reply, raised, result, jokeRaised>>

\* ---------------------------------------------------------------- actions
\* The process environment is set or cleared between calls.
ChangeEnviron(e) ==
    /\ pc = "idle"
    /\ e # environ
    /\ environ' = e
    /\ UNCHANGED <<held, missed, pc, frame>>

\* AnthropicChatModel(): the class body sets two defaults and reads nothing.
ConstructAdapter ==
    /\ pc = "idle"
    /\ ~held
    /\ held' = TRUE
    /\ UNCHANGED <<environ, missed, pc, frame>>

\* A caller invokes the adapter it holds with a conversation of its own.
Invoke(conv) ==
    /\ pc = "idle"
    /\ held
    /\ mode' = "direct"
    /\ self' = "held"
    /\ messages' = conv
    /\ pc' = "generate"
    /\ UNCHANGED <<environ, held, missed, arg, llm, constructed, invokes, client,
                   request, calls, sent, response, reply, raised, result,
                   jokeRaised>>

\* get_joke lines 16-22: default the adapter, build the conversation.
\* (faulty variant: the default adapter replaces whatever was passed)
GetJokeAlwaysConstruct(a) ==
    /\ pc = "idle"
    /\ a = "held" => held
    /\ mode' = "joke"
    /\ arg' = a
    /\ llm' = "fresh"
    /\ constructed' = TRUE
    /\ messages' = JokeMessages
    /\ pc' = "joke"
    /\ UNCHANGED <<environ, held, missed, invokes, self, client, request,
                   calls, sent, response, reply, raised, result, jokeRaised>>

GetJoke(a) ==
    /\ pc = "idle"
    /\ a = "held" => held
    /\ mode' = "joke"
    /\ arg' = a
    /\ llm' = (IF a = "none" THEN "fresh" ELSE a)
    /\ constructed' = (a = "none")
    /\ messages' = JokeMessages
    /\ pc' = "joke"
    /\ UNCHANGED <<environ, held, missed, invokes, self, client, request,
                   calls, sent, response, reply, raised, result, jokeRaised>>

\* get_joke line 24, llm.invoke(messages), on a real adapter.
JokeInvoke ==
    /\ pc = "joke"
    /\ llm \in {"held", "fresh"}
    /\ invokes' = invokes + 1
    /\ self' = llm
    /\ pc' = "generate"
    /\ UNCHANGED <<environ, held, missed, mode, arg, llm, constructed, messages,
                   client, request, calls, sent, response, reply, raised,
                   result, jokeRaised>>

\* get_joke line 24 on a test double: invoke returns its configured message.
DoubleInvoke(t) ==
    /\ pc = "joke"
    /\ llm = "double"
    /\ invokes' = invokes + 1
    /\ reply' = Some(AIMessage(t))
    /\ pc' = "returned"
    /\ UNCHANGED <<environ, held, missed, mode, arg, llm, constructed, self,
                   messages, client, request, calls, sent, response, raised,
                   result, jokeRaised>>

\* _generate line 37: os.environ[...] raises KeyError when the key is unset.
\* (faulty variant: a missing key is passed on as api_key=None)
ReadCredentialUnchecked ==
    /\ pc = "generate"
    /\ client' = environ
    /\ pc' = "client"
    /\ UNCHANGED <<environ, held, missed, mode, arg, llm, constructed, invokes,
                   self, messages, request, calls, sent, response, reply,
                   raised, result, jokeRaised>>

ReadCredential ==
    /\ pc = "generate"
    /\ IF environ = None
       THEN /\ raised' = Some("KeyError")
            /\ missed' = (missed \/ self = "held")
            /\ pc' = "raised"
            /\ UNCHANGED client
       ELSE /\ client' = environ
            /\ pc' = "client"
            /\ UNCHANGED <<raised, missed>>
    /\ UNCHANGED <<environ, held, mode, arg, llm, constructed, invokes, self,
                   messages, request, calls, sent, response, reply, result,
                   jokeRaised>>

\* _generate lines 41-58.
MakeRequest ==
    /\ pc = "client"
    /\ request' = Some(BuildRequest(messages))
    /\ pc' = "request"
    /\ UNCHANGED <<environ, held, missed, mode, arg, llm, constructed, invokes,
                   self, messages, client, calls, sent, response, reply,
                   raised, result, jokeRaised>>

\* _generate line 60: one call; the provider answers or the call raises.
\* (faulty variant: a failed call is issued again)
CreateWithRetry ==
    /\ pc = "request"
    /\ calls < 2
    /\ calls' = calls + 1
    /\ sent' = request
    /\ \/ \E r \in Responses : response' = Some(r) /\ pc' = "response"
                               /\ UNCHANGED raised
       \/ UNCHANGED <<response, pc, raised>>
    /\ UNCHANGED <<environ, held, missed, mode, arg, llm, constructed, invokes,
                   self, messages, client, request, reply, result, jokeRaised>>

Create ==
    /\ pc = "request"
    /\ calls' = calls + 1
    /\ sent' = request
    /\ \/ \E r \in Responses : response' = Some(r) /\ pc' = "response"
                               /\ UNCHANGED raised
       \/ \E e \in ProviderErrors : raised' = Some(e) /\ pc' = "raised"
                                    /\ UNCHANGED response
    /\ UNCHANGED <<environ, held, missed, mode, arg, llm, constructed, invokes,
                   self, messages, client, request, reply, result, jokeRaised>>

\* _generate lines 61-63: content[0] of an empty list raises IndexError.
Extract ==
    /\ pc = "response"
    /\ IF Get(response) = <<>>
       THEN /\ raised' = Some("IndexError")
            /\ pc' = "raised"
            /\ UNCHANGED reply
       ELSE /\ reply' = Some(AIMessage(FirstText(Get(response))))
            /\ pc' = "returned"
            /\ UNCHANGED raised
    /\ UNCHANGED <<environ, held, missed, mode, arg, llm, constructed, invokes,
                   self, messages, client, request, calls, sent, response,
                   result, jokeRaised>>

\* get_joke lines 24-25: return response.content; nothing is caught.
\* (faulty variant: an exception is swallowed and "" returned)
JokeReturnSwallow ==
    /\ mode = "joke"
    /\ pc \in {"returned", "raised"}
    /\ result' = (IF pc = "returned" THEN Some(Get(reply).content)
                                     ELSE Some(""))
    /\ jokeRaised' = None
    /\ pc' = "jokeReturned"
    /\ UNCHANGED <<environ, held, missed, mode, arg, llm, constructed, invokes,
                   self, messages, client, request, calls, sent, response,
                   reply, raised>>

JokeReturn ==
    /\ mode = "joke"
    /\ pc \in {"returned", "raised"}
    /\ IF pc = "returned"
       THEN /\ result' = Some(Get(reply).content)
            /\ pc' = "jokeReturned"
            /\ UNCHANGED jokeRaised
       ELSE /\ jokeRaised' = raised
            /\ pc' = "jokeRaised"
            /\ UNCHANGED result
    /\ UNCHANGED <<environ, held, missed, mode, arg, llm, constructed, invokes,
                   self, messages, client, request, calls, sent, response,
                   reply, raised>>

\* The call is over; its locals are discarded.
Finish ==
    /\ \/ mode = "direct" /\ pc \in {"returned", "raised"}
       \/ mode = "joke" /\ pc \in {"jokeReturned", "jokeRaised"}
    /\ pc' = "idle"
    /\ mode' = "none"
    /\ arg' = "none"
    /\ llm' = "none"
    /\ constructed' = FALSE
    /\ invokes' = 0
    /\ self' = "none"
    /\ messages' = <<>>
    /\ client' = None
    /\ request' = None
    /\ calls' = 0
    /\ sent' = None
    /\ response' = None
    /\ reply' = None
    /\ raised' = None
    /\ result' = None
    /\ jokeRaised' = None
    /\ UNCHANGED <<environ, held, missed>>

Next ==
    \/ \E e \in Env : ChangeEnviron(e)
    \/ ConstructAdapter
    \/ pc = "idle" /\ held /\ \E conv \in Conversations : Invoke(conv)
    \/ \E a \in {"none", "double", "held"} : GetJoke(a)
    \/ JokeInvoke
    \/ \E t \in DoubleTexts : DoubleInvoke(t)
    \/ ReadCredential
    \/ MakeRequest
    \/ Create
    \/ Extract
    \/ JokeReturn
    \/ Finish

Spec == Init /\ [][Next]_vars

\* ============================================================ properties
\* What the conversation prescribes, computed without the loop.
IsTurn(m) == m.type \in {"human", "ai"}

RoleOf(m) == IF m.type = "human" THEN "user" ELSE "assistant"

ExpectedTurns(msgs) ==
    LET kept == SelectSeq(msgs, IsTurn)
    IN  [i \in 1..Len(kept) |-> [role |-> RoleOf(kept[i]),
                                 content |-> kept[i].content]]

SystemPositions(msgs) == {i \in 1..Len(msgs) : msgs[i].type = "system"}

LastSystem(msgs) ==
    msgs[CHOOSE i \in SystemPositions(msgs) :
             \A j \in SystemPositions(msgs) : j <= i].content

HasSystemSlot(r) == "system" \in DOMAIN r

\* The system instruction a request carries; none is the empty instruction.
SystemUsed(r) == IF HasSystemSlot(r) THEN r.system ELSE ""

Issued == sent # None

\* _generate has run to its end, by return or by exception.
GenerateEnded ==
    /\ self # "none"
    /\ pc \in {"returned", "raised", "jokeReturned", "jokeRaised"}

\* C1: the turns of the issued request are exactly the conversation's user
\* and assistant messages, in order, with their roles mapped and contents
\* unchanged; no system message is among the turns.
C1_TurnsPreserved ==
    Issued =>
        /\ Get(sent).messages = ExpectedTurns(messages)
        /\ \A i \in 1..Len(Get(sent).messages) :
               Get(sent).messages[i].role \in {"user", "assistant"}

C1_Witness ==
    /\ Issued
    /\ messages = <<HumanMessage("a"), SystemMessage("b"), AIMessage("b")>>
    /\ Get(sent).messages = <<[role |-> "user", content |-> "a"],
                              [role |-> "assistant", content |-> "b"]>>

IsSystemUser(msgs) ==
    /\ Len(msgs) = 2
    /\ msgs[1].type = "system"
    /\ msgs[2].type = "human"

\* C2 as stated: for [System(s), User(u)] and every s and u, the request's
\* system slot equals s and its turns are exactly [user: u].
C2_Original ==
    (Issued /\ IsSystemUser(messages)) =>
        /\ HasSystemSlot(Get(sent))
        /\ Get(sent).system = messages[1].content
        /\ Get(sent).messages =
               <<[role |-> "user", content |-> messages[2].content]>>

\* C2 amended: for [System(s), User(u)] the turns are exactly [user: u]; the
\* system slot equals s when s is not empty, and is absent when s is empty.
C2_SystemUser ==
    (Issued /\ IsSystemUser(messages)) =>
        /\ Get(sent).messages =
               <<[role |-> "user", content |-> messages[2].content]>>
        /\ IF messages[1].content # ""
           THEN HasSystemSlot(Get(sent))
                /\ Get(sent).system = messages[1].content
           ELSE ~HasSystemSlot(Get(sent))

C2_Witness ==
    /\ Issued
    /\ messages = <<SystemMessage("a"), HumanMessage("b")>>
    /\ HasSystemSlot(Get(sent))
    /\ Get(sent).system = "a"

\* C3: a conversation without a system message yields a request without the
\* system key, and with model, max_tokens and messages present.
C3_NoSystemNoSlot ==
    (Issued /\ SystemPositions(messages) = {}) =>
        /\ DOMAIN Get(sent) = {"model", "max_tokens", "messages"}
        /\ Get(sent).model = model_name
        /\ Get(sent).max_tokens = max_tokens

C3_Witness ==
    /\ Issued
    /\ messages = <<HumanMessage("a"), AIMessage(""), HumanMessage("b")>>
    /\ ~HasSystemSlot(Get(sent))

\* C4: whenever _generate returns, the reply is one assistant message whose
\* content is the text of the first content block of the response.
C4_ReplyIsFirstBlock ==
    (self # "none" /\ pc = "returned") =>
        /\ response # None
        /\ Get(response) # <<>>
        /\ reply = Some([type |-> "ai", content |-> Get(response)[1].text])

C4_Witness ==
    /\ self # "none"
    /\ pc = "returned"
    /\ messages = <<HumanMessage("a")>>
    /\ Get(response) = <<ContentBlock("x"), ContentBlock("y")>>
    /\ reply = Some(AIMessage("x"))

\* C5: given an adapter, get_joke constructs none, invokes the given one
\* exactly once with the fixed two-message conversation, and returns the
\* content of its reply; with a test double no credential is read and no
\* provider call is made.
C5_SuppliedAdapterUsed ==
    (mode = "joke" /\ arg # "none") =>
        /\ ~constructed
        /\ llm = arg
        /\ messages = <<SystemMessage(Persona), HumanMessage(Ask)>>
        /\ invokes = (IF pc = "joke" THEN 0 ELSE 1)
        /\ arg = "double" => (client = None /\ calls = 0 /\ self = "none")
        /\ arg = "held" => self \in {"none", "held"}
        /\ pc = "jokeReturned" =>
               (reply # None /\ result = Some(Get(reply).content))

C5_Witness ==
    /\ mode = "joke"
    /\ arg = "double"
    /\ pc = "jokeReturned"
    /\ invokes = 1
    /\ result = Some(Atoms)

FailureKinds == {"KeyError", "IndexError"} \cup ProviderErrors

\* C6: a missing credential, a provider failure and an empty response each
\* end _generate in that failure with no reply, and get_joke ends in the same
\* failure with no string returned.
C6_FailuresPropagate ==
    /\ pc = "raised" =>
           (raised # None /\ Get(raised) \in FailureKinds /\ reply = None)
    /\ raised # None => pc \in {"raised", "jokeRaised"}
    /\ pc = "jokeRaised" =>
           (raised # None /\ jokeRaised = raised /\ result = None
            /\ reply = None)
    /\ pc = "jokeReturned" => (raised = None /\ jokeRaised = None)
    /\ (GenerateEnded /\ environ = None) => raised = Some("KeyError")
    /\ (GenerateEnded /\ response = Some(<<>>)) => raised = Some("IndexError")
    /\ (GenerateEnded /\ calls = 1 /\ response = None) =>
           (raised # None /\ Get(raised) \in ProviderErrors)

C6_Witness ==
    /\ mode = "joke"
    /\ pc = "jokeRaised"
    /\ response = Some(<<>>)
    /\ raised = Some("IndexError")
    /\ jokeRaised = Some("IndexError")
    /\ result = None

\* C7: an invocation of _generate makes at most one provider call, and
\* exactly one when the credential was present, whatever the outcome.
C7_OneProviderCall ==
    /\ calls \in {0, 1}
    /\ GenerateEnded => calls = (IF environ # None THEN 1 ELSE 0)
    /\ (response # None \/ (raised # None /\ Get(raised) # "KeyError")) =>
           calls = 1

C7_Witness ==
    /\ GenerateEnded
    /\ raised = Some("RateLimitError")
    /\ calls = 1

\* C8: the credential is read by each _generate before the provider call and
\* never at construction: adapters are constructed without one, an invocation
\* without one raises before any provider call, and an invocation with one
\* reads the value the environment holds now, also after an earlier miss.
C8_CredentialAtCallTime ==
    /\ (pc = "idle" /\ ~held) => ENABLED ConstructAdapter
    /\ pc = "idle" => ENABLED GetJoke("none")
    /\ (self # "none" /\ pc # "generate") =>
           IF environ = None
           THEN raised = Some("KeyError") /\ client = None
                /\ calls = 0 /\ sent = None
           ELSE client = environ
    /\ calls > 0 => client # None
    /\ pc = "generate" => (client = None /\ calls = 0)

C8_Witness ==
    /\ missed
    /\ self = "held"
    /\ pc = "response"
    /\ environ = Some("k2")
    /\ client = Some("k2")
    /\ calls = 1

\* C9: with more than one system message, the system instruction of the
\* request is the content of the last of them, wherever they stand, and the
\* turns are those of the conversation.
C9_LastSystemWins ==
    (Issued /\ Cardinality(SystemPositions(messages)) > 1) =>
        /\ SystemUsed(Get(sent)) = LastSystem(messages)
        /\ Get(sent).messages = ExpectedTurns(messages)

C9_Witness ==
    /\ Issued
    /\ messages = <<SystemMessage("a"), HumanMessage("a"), SystemMessage("b")>>
    /\ Get(sent).system = "b"
    /\ Get(sent).messages = <<[role |-> "user", content |-> "a"]>>

\* C10: the request has a system slot exactly when the conversation has a
\* system message and the last one is not empty; the slot is never "".
C10_SlotIffLastSystemNonEmpty ==
    Issued =>
        /\ HasSystemSlot(Get(sent)) <=>
               (SystemPositions(messages) # {} /\ LastSystem(messages) # "")
        /\ HasSystemSlot(Get(sent)) => Get(sent).system # ""

C10_Witness ==
    /\ Issued
    /\ messages = <<SystemMessage("a"), SystemMessage(""), HumanMessage("b")>>
    /\ ~HasSystemSlot(Get(sent))

====
